---- MODULE Spec2Model ----
(***************************************************************************)
(* A model of netlistGen.py: the random netlist generator.  The state is   *)
(* the state of one run of generateNetlist followed by writeNetlist: the   *)
(* Netlist object, the heap of Instance objects, the gate lists and the    *)
(* free flip-flop pool, and the position of the run in the function.       *)
(* Every call of the random module is a nondeterministic choice.           *)
(***************************************************************************)
EXTENDS Integers, Sequences, FiniteSets, TLC

\* ------------------------------------------------------------------ bounds
\* Largest --gates value (ngates) of a run.
MaxGates == 3
\* Largest number of clock-bearing cells among the cells drawn at line 290.
MaxSeq == 1

\* ------------------------------------------------------- program constants
CloudSizeMin == 10
CloudSizeMax == 100
LevelSizeMin == 1
LevelSizeMax == 10
\* T = rent * ngates ** p with p = 0.4 = RentPNum / RentPDen
RentR == 3
RentPNum == 2
RentPDen == 5

\* ------------------------------------------------------------- the library
\* The StdCell objects parseLEF returns: cell name -> pins, in file order
\* (StdCell.pins is a dict, which keeps insertion order).
Pin(n, d, t) == [name |-> n, dir |-> d, type |-> t]

StdCells ==
  [c \in {"INV", "TIEH", "HA", "DFF", "SDFFRS"} |->
     CASE c = "INV" ->
            << Pin("A", "INPUT", "SIGNAL"), Pin("Y", "OUTPUT", "SIGNAL") >>
       [] c = "HA" ->
            << Pin("A", "INPUT", "SIGNAL"), Pin("S", "OUTPUT", "SIGNAL"),
               Pin("CO", "OUTPUT", "SIGNAL") >>
       [] c = "TIEH" ->
            << Pin("Z", "OUTPUT", "SIGNAL") >>
       [] c = "DFF" ->
            << Pin("D", "INPUT", "SIGNAL"), Pin("CK", "INPUT", "CLOCK"),
               Pin("Q", "OUTPUT", "SIGNAL") >>
       [] c = "SDFFRS" ->
            << Pin("D", "INPUT", "SIGNAL"), Pin("SI", "INPUT", "SIGNAL"),
               Pin("SE", "INPUT", "SIGNAL"), Pin("CK", "INPUT", "CLOCK"),
               Pin("RN", "INPUT", "SIGNAL"), Pin("SN", "INPUT", "SIGNAL"),
               Pin("Q", "OUTPUT", "SIGNAL") >>]

\* The distributions a run may be given: cell name -> weight.
Distributions ==
  { [c \in {"INV", "SDFFRS"} |-> IF c = "INV" THEN 7 ELSE 3],
    [c \in {"TIEH", "DFF"} |-> 1],
    [c \in {"HA", "SDFFRS"} |-> 1],
    [c \in {"INV"} |-> 1] }

\* str.lower() on the cell names of the library and on the pin directions.
Lower(s) == CASE s = "INV" -> "inv"
              [] s = "INPUT" -> "input"
              [] s = "TIEH" -> "tieh"
              [] s = "HA" -> "ha"
              [] s = "DFF" -> "dff"
              [] s = "SDFFRS" -> "sdffrs"
              [] OTHER -> s

\* ----------------------------------------------------------------- helpers
Range(s) == {s[i] : i \in DOMAIN s}

Min(a, b) == IF a < b THEN a ELSE b

\* list.remove(x): drops the first occurrence of x.
RECURSIVE Remove(_, _)
Remove(s, x) ==
  IF s = << >> THEN << >>
  ELSE IF Head(s) = x THEN Tail(s)
  ELSE << Head(s) >> \o Remove(Tail(s), x)

RECURSIVE RemoveAll(_, _)
RemoveAll(s, xs) ==
  IF xs = << >> THEN s ELSE RemoveAll(Remove(s, Head(xs)), Tail(xs))

\* random.sample(s, k): k members of s at distinct positions, in any order.
Samples(s, k) ==
  {t \in [1..k -> Range(s)] : \A i, j \in 1..k : i # j => t[i] # t[j]}

\* random.choices(keys, weights): a key of positive weight.
Drawable(dist) == {c \in DOMAIN dist : dist[c] > 0}

PinsOf(c) == StdCells[c]

\* "for pin in cell.pins.values(): if pin.type == 'CLOCK'"
HasClock(c) == \E i \in DOMAIN PinsOf(c) : PinsOf(c)[i].type = "CLOCK"

\* The keys of Instance.inputs, in insertion order.
InputPins(c) == SelectSeq(PinsOf(c), LAMBDA p : p.dir = "INPUT")

OutputPins(c) == SelectSeq(PinsOf(c), LAMBDA p : p.dir = "OUTPUT")

PinType(c, pinName) ==
  LET i == CHOOSE j \in DOMAIN PinsOf(c) : PinsOf(c)[j].name = pinName
  IN PinsOf(c)[i].type

\* The pin loop of lines 330-341 / 226-237 ends in sys.exit().
BadCell(c) ==
  \/ \E i \in DOMAIN PinsOf(c) : PinsOf(c)[i].dir \notin {"INPUT", "OUTPUT"}
  \/ Len(OutputPins(c)) > 1

\* --------------------------------------------------------------- objects
\* The 0 that marks a free pin in Instance.inputs and Instance.output.
Zero == [obj |-> 0, name |-> "0", dir |-> ""]

\* Net(name) with dir set: obj is the identity of the object, the number of
\* Net objects constructed so far plus one.
Net(obj, name, dir) == [obj |-> obj, name |-> name, dir |-> dir]

IsNet(n) == n # Zero

\* cell.name.lower() + "_" + str(ID)
InstanceName(c, ID) == Lower(c) \o "_" \o ToString(ID)

\* Instance(name, cell) after the pin loop: every input 0, output [pin, 0].
NewInstance(c, ID) ==
  [name |-> InstanceName(c, ID),
   cell |-> c,
   inputs |-> [p \in {InputPins(c)[i].name : i \in DOMAIN InputPins(c)} |-> Zero],
   output |-> << IF OutputPins(c) = << >> THEN "None" ELSE OutputPins(c)[1].name,
                 Zero >>]

\* The net is made and never stored in instance.output[1].
WithOutputNet_NotStored(rec, obj) == rec

\* net = Net(instance.name + "_net"); net.dir = "wire"; instance.output[1] = net
WithOutputNet(rec, obj) ==
  [rec EXCEPT !.output[2] = Net(obj, rec.name \o "_net", "wire")]

\* "0 in instance.inputs.values()"
HasFreeInput(rec) == \E p \in DOMAIN rec.inputs : rec.inputs[p] = Zero

\* The first key of rec.inputs whose value is 0.
FirstFreePin(rec) ==
  LET ps == InputPins(rec.cell)
      i == CHOOSE j \in DOMAIN ps :
             /\ rec.inputs[ps[j].name] = Zero
             /\ \A k \in 1..(j - 1) : rec.inputs[ps[k].name] # Zero
  IN ps[i].name

\* ------------------------------------------------------------------- state
VARIABLES
  pc,            \* where the run is
  ngates,        \* --gates
  distribution,  \* the distribution given
  cells,         \* the cell names drawn at line 290
  logic, ff,     \* the sets of cell names of lines 292-293
  heap,          \* the Instance objects: identity -> fields
  instances,     \* netlist.instances, a list of Instance identities
  nets,          \* netlist.nets
  pins,          \* netlist.pins
  netCount,      \* the number of Net objects constructed
  logicGates, ffGates, freeFF,
  cloud, levels, \* the cloud being sliced and its levels
  li,            \* i of "for i in range(len(levels)-1)", counted from 1
  unassigned,    \* outputNetsUnassigned of the pair being processed
  pending,       \* the members of unassigned the for loop has yet to visit
  net,           \* the local variable net; Zero between two turns of the
                 \* while loop of line 604, which assigns it before any use
  cellName,      \* the local variable cellName of regenFF
  pinIdx,        \* the position of "for pin in netlist.pins", from 1
  outStr,        \* what writeNetlist wrote
  clouds,        \* the levels of every cloud finished so far, in order; the
                 \* program keeps only the last one, in levels
  \* Two runs, A and B, of lines 411-417 under one seed:
  seedDraws,     \* the index random.choice draws at each of its calls
  listA, listB,  \* list(outputNets) of line 415 in each run
  boundA, boundB,\* the nets the level's inputs were given, in loop order
  \* A call of parseLEF:
  lefLines,      \* f.readlines(), each line as the list of its words
  lefIdx,        \* the position of "for line in lines", from 1
  lefPc,         \* where the call is
  stdCells,      \* the dict stdCells: cell name -> StdCell fields
  pinObjs,       \* the Pin objects constructed, by identity
  lefPin,        \* the local variable pin: a Pin identity, 0 when unbound
  macroBlock,    \* the local variable macroBlock
  stdCell,       \* the local variable stdCell: the name of the StdCell
  \* A call of distributionFromFile:
  distLines,     \* f.readlines(), each line as << name, weight >>
  distIdx,       \* the position of "for line in lines", from 1
  distPc,        \* where the call is
  distTable      \* the dict distribution

vars == << pc, ngates, distribution, cells, logic, ff, heap, instances, nets,
           pins, netCount, logicGates, ffGates, freeFF, cloud, levels, li,
           unassigned, pending, net, cellName, pinIdx, outStr, clouds,
           seedDraws, listA, listB, boundA, boundB,
           lefLines, lefIdx, lefPc, stdCells, pinObjs, lefPin, macroBlock,
           stdCell,
           distLines, distIdx, distPc, distTable >>

mainVars == << pc, ngates, distribution, cells, logic, ff, heap, instances,
               nets, pins, netCount, logicGates, ffGates, freeFF, cloud,
               levels, li, unassigned, pending, net, cellName, pinIdx, outStr,
               clouds >>

detVars == << seedDraws, listA, listB, boundA, boundB >>

lefVars == << lefLines, lefIdx, lefPc, stdCells, pinObjs, lefPin, macroBlock,
             stdCell >>

distVars == << distLines, distIdx, distPc, distTable >>

\* What a run of generateNetlist leaves alone: the runs of lines 411-417 and
\* the calls of parseLEF and distributionFromFile.
otherVars == << detVars, lefVars, distVars >>

\* No call of parseLEF is under way.
LefIdle ==
  /\ lefLines = << >>
  /\ lefIdx = 0
  /\ lefPc = "idle"
  /\ stdCells = << >>
  /\ pinObjs = << >>
  /\ lefPin = 0
  /\ macroBlock = FALSE
  /\ stdCell = "None"

\* No call of distributionFromFile is under way.
DistIdle ==
  /\ distLines = << >>
  /\ distIdx = 0
  /\ distPc = "idle"
  /\ distTable = << >>

Init ==
  /\ pc = "sample"
  /\ ngates \in 1..MaxGates
  /\ distribution \in Distributions
  /\ cells = << >>
  /\ logic = {}
  /\ ff = {}
  /\ heap = << >>
  /\ instances = << >>
  /\ nets = << >>
  /\ pins = << >>
  /\ netCount = 0
  /\ logicGates = << >>
  /\ ffGates = << >>
  /\ freeFF = << >>
  /\ cloud = << >>
  /\ levels = << >>
  /\ li = 0
  /\ unassigned = {}
  /\ pending = {}
  /\ net = Zero
  /\ cellName = "None"
  /\ pinIdx = 0
  /\ outStr = << >>
  /\ clouds = << >>
  /\ seedDraws = << >>
  /\ listA = << >>
  /\ listB = << >>
  /\ boundA = << >>
  /\ boundB = << >>
  /\ LefIdle
  /\ DistIdle

\* ------------------------------------------------- sampling (lines 290-309)
SampleCells ==
  /\ pc = "sample"
  /\ \E cs \in [1..ngates -> Drawable(distribution)] :
       /\ Cardinality({i \in 1..ngates : HasClock(cs[i])}) <= MaxSeq
       /\ cells' = cs
       /\ ff' = {c \in Range(cs) : HasClock(c)}
       /\ logic' = {c \in Range(cs) : ~HasClock(c)}
  /\ pc' = "prepare"
  /\ UNCHANGED << otherVars, clouds >>
  /\ UNCHANGED << ngates, distribution, heap, instances, nets, pins, netCount,
                  logicGates, ffGates, freeFF, cloud, levels, li, unassigned,
                  pending, net, cellName, pinIdx, outStr >>

\* ------------------------------------- instance preparation (lines 320-361)
\* The number of cells the loop handles before one makes it exit.
Prepared(cs) ==
  IF \E i \in DOMAIN cs : BadCell(cs[i])
  THEN (CHOOSE i \in DOMAIN cs :
          BadCell(cs[i]) /\ \A j \in 1..(i - 1) : ~BadCell(cs[j])) - 1
  ELSE Len(cs)

\* The instance made for cells[i] (i from 1; enumerate counts from 0).
PreparedInstance(cs, i) == WithOutputNet(NewInstance(cs[i], i - 1), i)

\* Every instance is appended twice, as lines 425 and 433 do.
PreparedInstances_Twice(cs) == [i \in 1..(2 * Prepared(cs)) |-> (i + 1) \div 2]

\* netlist.instances after the loop.
PreparedInstances(cs) == [i \in 1..Prepared(cs) |-> i]

PrepareInstances ==
  /\ pc = "prepare"
  /\ LET n == Prepared(cells)
         h == [i \in 1..n |-> PreparedInstance(cells, i)]
     IN /\ heap' = h
        /\ instances' = PreparedInstances(cells)
        /\ nets' = [i \in 1..n |-> h[i].output[2]]
        /\ netCount' = n
        /\ logicGates' = SelectSeq([i \in 1..n |-> i], LAMBDA k : h[k].cell \in logic)
        /\ ffGates' = SelectSeq([i \in 1..n |-> i], LAMBDA k : h[k].cell \in ff)
        /\ IF n < Len(cells)
           THEN /\ pc' = "exit"
                /\ freeFF' = freeFF
           ELSE /\ pc' = "clock"
                /\ freeFF' = ffGates'
  /\ UNCHANGED << otherVars, clouds >>
  /\ UNCHANGED << ngates, distribution, cells, logic, ff, pins, cloud, levels,
                  li, unassigned, pending, net, cellName, pinIdx, outStr >>

\* ------------------------------------------- clock (lines 365-378)
\* The clock Net of line 365, the (obj)th Net constructed.
ClockNet(obj) == Net(obj, "clock", "input")

\* The clock is bound to no pin.
BindClock_Skipped(rec, clock) == rec

\* Lines 375-378 on one instance.
BindClock(rec, clock) ==
  [rec EXCEPT !.inputs =
     [p \in DOMAIN @ |-> IF PinType(rec.cell, p) = "CLOCK" THEN clock ELSE @[p]]]

GenerateClock ==
  /\ pc = "clock"
  /\ LET clock == ClockNet(netCount + 1)
     IN /\ nets' = Append(nets, clock)
        /\ pins' = Append(pins, clock)
        /\ netCount' = netCount + 1
        /\ heap' = [k \in DOMAIN heap |->
                      IF k \in Range(instances) THEN BindClock(heap[k], clock)
                      ELSE heap[k]]
  /\ pc' = "clouds"
  /\ UNCHANGED << otherVars, clouds >>
  /\ UNCHANGED << ngates, distribution, cells, logic, ff, instances,
                  logicGates, ffGates, freeFF, cloud, levels, li, unassigned,
                  pending, net, cellName, pinIdx, outStr >>

\* ------------------------------------------- logic clouds (lines 385-450)
\* Lines 389-397: cloudSize = random.randint(10, 100), the cloud is a sample
\* of that size or every gate left.
NewCloud ==
  /\ pc = "clouds"
  /\ Len(logicGates) > 0
  /\ \E cloudSize \in CloudSizeMin..CloudSizeMax :
       \E cl \in (IF cloudSize < Len(logicGates)
                  THEN Samples(logicGates, cloudSize)
                  ELSE {logicGates}) :
         /\ cloud' = cl
         /\ logicGates' = RemoveAll(logicGates, cl)
  /\ levels' = << >>
  /\ pc' = "slice"
  /\ UNCHANGED << otherVars, clouds >>
  /\ UNCHANGED << ngates, distribution, cells, logic, ff, heap, instances,
                  nets, pins, netCount, ffGates, freeFF, li, unassigned,
                  pending, net, cellName, pinIdx, outStr >>

\* Lines 399-404, one turn of "while len(cloud) > 0"; the turn that empties
\* the cloud goes on to the for loop of line 408.
SliceLevel ==
  /\ pc = "slice"
  /\ Len(cloud) > 0
  /\ \E r \in LevelSizeMin..LevelSizeMax :
       \E level \in Samples(cloud, Min(r, Len(cloud))) :
         /\ cloud' = RemoveAll(cloud, level)
         /\ levels' = Append(levels, level)
  /\ li' = 1
  /\ pc' = IF Len(cloud') > 0 THEN "slice"
           ELSE IF Len(levels') > 1 THEN "wire" ELSE "first"
  /\ UNCHANGED << otherVars, clouds >>
  /\ UNCHANGED << ngates, distribution, cells, logic, ff, heap, instances,
                  nets, pins, netCount, logicGates, ffGates, freeFF,
                  unassigned, pending, net, cellName, pinIdx, outStr >>

\* The (instance, pin) pairs "for instance in level: for pin in
\* instance.inputs.keys()" visits.
LevelSlots(h, level) ==
  UNION {{<< x, p >> : p \in DOMAIN h[x].inputs} : x \in Range(level)}

\* The output nets of every instance made so far.
OutputNets_AnyLevel(h, prevLevel) == {h[x].output[2] : x \in DOMAIN h}

\* outputNets of line 411.
OutputNets(h, prevLevel) == {h[x].output[2] : x \in Range(prevLevel)}

\* Lines 409-418 for the pair (levels[li], levels[li+1]): every input of the
\* level is given a random.choice of the previous level's output nets.
WireLevel ==
  /\ pc = "wire"
  /\ LET level == levels[li + 1]
         outputNets == OutputNets(heap, levels[li])
         slots == LevelSlots(heap, level)
     IN \E f \in [slots -> outputNets] :
          /\ heap' = [k \in DOMAIN heap |->
                        IF k \in Range(level)
                        THEN [heap[k] EXCEPT !.inputs =
                                [p \in DOMAIN @ |-> f[<< k, p >>]]]
                        ELSE heap[k]]
          /\ unassigned' = outputNets \ {f[s] : s \in slots}
          /\ pending' = unassigned'
  /\ pc' = "route"
  /\ UNCHANGED << otherVars, clouds >>
  /\ UNCHANGED << ngates, distribution, cells, logic, ff, instances, nets,
                  pins, netCount, logicGates, ffGates, freeFF, cloud, levels,
                  li, net, cellName, pinIdx, outStr >>

\* Lines 439-442: every input of the flip-flop that is 0 is given the net
\* (the loop has no break).
FillFree(rec, n) ==
  [rec EXCEPT !.inputs = [p \in DOMAIN @ |-> IF @[p] = Zero THEN n ELSE @[p]]]

\* Lines 420-422 and 439-445: one turn of "for net in outputNetsUnassigned"
\* when the pool is not empty.  The set is visited in any order.
RouteToFreeFF ==
  /\ pc = "route"
  /\ pending # {}
  /\ Len(freeFF) > 0
  /\ \E n \in pending, flipflop \in Range(freeFF) :
       LET rec == FillFree(heap[flipflop], n)
       IN /\ net' = n
          /\ pending' = pending \ {n}
          /\ heap' = [heap EXCEPT ![flipflop] = rec]
          /\ freeFF' = IF ~HasFreeInput(rec) THEN Remove(freeFF, flipflop)
                       ELSE freeFF
  /\ UNCHANGED << otherVars, clouds >>
  /\ UNCHANGED << pc, ngates, distribution, cells, logic, ff, instances, nets,
                  pins, netCount, logicGates, ffGates, cloud, levels, li,
                  unassigned, cellName, pinIdx, outStr >>

\* Lines 420, 423-424: the pool is empty, regenFF is called.
RegenFFCall ==
  /\ pc = "route"
  /\ pending # {}
  /\ Len(freeFF) = 0
  /\ \E n \in pending :
       /\ net' = n
       /\ pending' = pending \ {n}
  /\ cellName' = "None"
  /\ pc' = "regenFF"
  /\ UNCHANGED << otherVars, clouds >>
  /\ UNCHANGED << ngates, distribution, cells, logic, ff, heap, instances,
                  nets, pins, netCount, logicGates, ffGates, freeFF, cloud,
                  levels, li, unassigned, pinIdx, outStr >>

\* Lines 215-220, one turn of "while not found".
RegenFFDraw ==
  /\ pc = "regenFF"
  /\ \E c \in Drawable(distribution) :
       /\ cellName' = c
       /\ pc' = IF HasClock(c) THEN "regenBuild" ELSE "regenFF"
  /\ UNCHANGED << otherVars, clouds >>
  /\ UNCHANGED << ngates, distribution, cells, logic, ff, heap, instances,
                  nets, pins, netCount, logicGates, ffGates, freeFF, cloud,
                  levels, li, unassigned, pending, net, pinIdx, outStr >>

\* netlist.instances after lines 425 and 433.
RegenAppended(insts, id) == Append(Append(insts, id), id)

\* Lines 221-239, then 425-445 on the new flip-flop: its output net replaces
\* the loop's net, and is what its inputs are given.
RegenFFBuild ==
  /\ pc = "regenBuild"
  /\ IF BadCell(cellName)
     THEN /\ pc' = "exit"
          /\ UNCHANGED << heap, instances, nets, netCount, ffGates, freeFF,
                          net >>
     ELSE LET id == Len(heap) + 1
              made == WithOutputNet(NewInstance(cellName, Len(ffGates)),
                                    netCount + 1)
              rec == FillFree(made, made.output[2])
          IN /\ heap' = Append(heap, rec)
             /\ instances' = RegenAppended(instances, id)
             /\ nets' = Append(nets, made.output[2])
             /\ netCount' = netCount + 1
             /\ ffGates' = Append(ffGates, id)
             /\ net' = made.output[2]
             /\ freeFF' = IF ~HasFreeInput(rec) THEN Remove(Append(freeFF, id), id)
                          ELSE Append(freeFF, id)
             /\ pc' = "route"
  /\ cellName' = "None"
  /\ UNCHANGED << otherVars, clouds >>
  /\ UNCHANGED << ngates, distribution, cells, logic, ff, pins, logicGates,
                  cloud, levels, li, unassigned, pending, pinIdx, outStr >>

\* The for loop of line 420 is over: the next i of line 408, or line 447.
NextPair ==
  /\ pc = "route"
  /\ pending = {}
  /\ IF li + 1 <= Len(levels) - 1
     THEN /\ li' = li + 1
          /\ pc' = "wire"
     ELSE /\ li' = li
          /\ pc' = "first"
  /\ UNCHANGED << otherVars, clouds >>
  /\ UNCHANGED << ngates, distribution, cells, logic, ff, heap, instances,
                  nets, pins, netCount, logicGates, ffGates, freeFF, cloud,
                  levels, unassigned, pending, net, cellName, pinIdx, outStr >>

\* Lines 447-450: every input of the first level is given the output of a
\* random.choice(ffGates), which raises IndexError on an empty list.
BindFirstLevel ==
  /\ pc = "first"
  /\ LET slots == LevelSlots(heap, levels[1])
     IN IF slots # {} /\ Len(ffGates) = 0
        THEN /\ pc' = "error"
             /\ heap' = heap
             /\ clouds' = clouds
        ELSE /\ \E f \in [slots -> Range(ffGates)] :
                  heap' = [k \in DOMAIN heap |->
                             IF k \in Range(levels[1])
                             THEN [heap[k] EXCEPT !.inputs =
                                     [p \in DOMAIN @ |->
                                        heap[f[<< k, p >>]].output[2]]]
                             ELSE heap[k]]
             /\ pc' = "clouds"
             /\ clouds' = Append(clouds, levels)
  /\ UNCHANGED otherVars
  /\ UNCHANGED << ngates, distribution, cells, logic, ff, instances, nets,
                  pins, netCount, logicGates, ffGates, freeFF, cloud, levels,
                  li, unassigned, pending, net, cellName, pinIdx, outStr >>

\* ------------------------------------------- primary I/O (lines 565-600)
\* int(rent * (ngates ** p)): the largest t with t^5 <= rent^5 * ngates^2.
Terminals(n) ==
  CHOOSE t \in 0..(RentR * n) :
    /\ t ^ RentPDen <= (RentR ^ RentPDen) * (n ^ RentPNum)
    /\ (t + 1) ^ RentPDen > (RentR ^ RentPDen) * (n ^ RentPNum)

\* The Pin of lines 576-578.
IOPin(i) == [name |-> "io_" \o ToString(i), dir |-> "INPUT", type |-> "SIGNAL"]

\* The while loop of line 385 is over.  Lines 565-579 append the io pins to
\* netlist.pins, which holds the clock Net since line 372; lines 582-584 make
\* the Net of the first member of netlist.pins.
CreateIOPins ==
  /\ pc = "clouds"
  /\ Len(logicGates) = 0
  /\ pins' = pins \o [i \in 1..Terminals(ngates) |-> IOPin(i - 1)]
  /\ pinIdx' = 1
  /\ net' = Net(netCount + 1, pins'[1].name, "input")
  /\ netCount' = netCount + 1
  /\ pc' = "io"
  /\ UNCHANGED << otherVars, clouds >>
  /\ UNCHANGED << ngates, distribution, cells, logic, ff, heap, instances,
                  nets, logicGates, ffGates, freeFF, cloud, levels, li,
                  unassigned, pending, cellName, outStr >>

\* Lines 587-589: nothing is left in the pool, sys.exit().
IOAbort ==
  /\ pc = "io"
  /\ Len(freeFF) = 0
  /\ pc' = "exit"
  /\ UNCHANGED << otherVars, clouds >>
  /\ UNCHANGED << ngates, distribution, cells, logic, ff, heap, instances,
                  nets, pins, netCount, logicGates, ffGates, freeFF, cloud,
                  levels, li, unassigned, pending, net, cellName, pinIdx,
                  outStr >>

\* The net is given to no input.
BindFirstFree_Kept(rec, n) == rec

\* Lines 593-596 / 614-617: the first input that is 0 is given the net.
BindFirstFree(rec, n) == [rec EXCEPT !.inputs[FirstFreePin(rec)] = n]

\* Lines 591-597: the candidate has a free input, which is given the pin's
\* net; then the next pin of line 582 and its Net, or line 603.
IOBind ==
  /\ pc = "io"
  /\ \E candidate \in Range(freeFF) :
       /\ HasFreeInput(heap[candidate])
       /\ heap' = [heap EXCEPT ![candidate] = BindFirstFree(@, net)]
  /\ pinIdx' = pinIdx + 1
  /\ IF pinIdx < Len(pins)
     THEN /\ net' = Net(netCount + 1, pins[pinIdx + 1].name, "input")
          /\ netCount' = netCount + 1
          /\ pc' = "io"
     ELSE /\ net' = Zero
          /\ netCount' = netCount
          /\ pc' = "leftover"
  /\ UNCHANGED << otherVars, clouds >>
  /\ UNCHANGED << ngates, distribution, cells, logic, ff, instances, nets,
                  pins, logicGates, ffGates, freeFF, cloud, levels, li,
                  unassigned, pending, cellName, outStr >>

\* Lines 598-600: the candidate has no free input and leaves the pool.
IODrop ==
  /\ pc = "io"
  /\ \E candidate \in Range(freeFF) :
       /\ ~HasFreeInput(heap[candidate])
       /\ freeFF' = Remove(freeFF, candidate)
  /\ UNCHANGED << otherVars, clouds >>
  /\ UNCHANGED << pc, ngates, distribution, cells, logic, ff, heap, instances,
                  nets, pins, netCount, logicGates, ffGates, cloud, levels,
                  li, unassigned, pending, net, cellName, pinIdx, outStr >>

\* ------------------------------------------- leftovers (lines 604-624)
\* "while len(freeFF) > 1": the last flip-flop is left as it is.
LeftoverDone_AtOne(pool) == Len(pool) <= 1

\* Line 604: "while len(freeFF) > 0" is over.
LeftoverDone(pool) == Len(pool) = 0

\* Lines 604-607: a donor is picked.
PickDonor ==
  /\ pc = "leftover"
  /\ ~LeftoverDone(freeFF)
  /\ \E donnorFF \in Range(freeFF) : net' = heap[donnorFF].output[2]
  /\ pc' = "receive"
  /\ UNCHANGED << otherVars, clouds >>
  /\ UNCHANGED << ngates, distribution, cells, logic, ff, heap, instances,
                  nets, pins, netCount, logicGates, ffGates, freeFF, cloud,
                  levels, li, unassigned, pending, cellName, pinIdx, outStr >>

\* Lines 612-618: the receiver has a free input, which is given the net.
ReceiverBind ==
  /\ pc = "receive"
  /\ \E receiverFF \in Range(freeFF) :
       /\ HasFreeInput(heap[receiverFF])
       /\ heap' = [heap EXCEPT ![receiverFF] = BindFirstFree(@, net)]
  /\ pc' = "leftover"
  /\ net' = Zero
  /\ UNCHANGED << otherVars, clouds >>
  /\ UNCHANGED << ngates, distribution, cells, logic, ff, instances, nets,
                  pins, netCount, logicGates, ffGates, freeFF, cloud, levels,
                  li, unassigned, pending, cellName, pinIdx, outStr >>

\* Lines 619-621, and 609-611 when that empties the pool.
ReceiverDrop ==
  /\ pc = "receive"
  /\ \E receiverFF \in Range(freeFF) :
       /\ ~HasFreeInput(heap[receiverFF])
       /\ freeFF' = Remove(freeFF, receiverFF)
  /\ pc' = IF Len(freeFF') = 0 THEN "leftover" ELSE "receive"
  /\ net' = IF Len(freeFF') = 0 THEN Zero ELSE net
  /\ UNCHANGED << otherVars, clouds >>
  /\ UNCHANGED << ngates, distribution, cells, logic, ff, heap, instances,
                  nets, pins, netCount, logicGates, ffGates, cloud, levels,
                  li, unassigned, pending, cellName, pinIdx, outStr >>

\* Line 624: return netlist.
Return ==
  /\ pc = "leftover"
  /\ LeftoverDone(freeFF)
  /\ pc' = "returned"
  /\ UNCHANGED << otherVars, clouds >>
  /\ UNCHANGED << ngates, distribution, cells, logic, ff, heap, instances,
                  nets, pins, netCount, logicGates, ffGates, freeFF, cloud,
                  levels, li, unassigned, pending, net, cellName, pinIdx,
                  outStr >>

\* ------------------------------------------- writeNetlist (lines 641-684)
\* Lines 660-670: what is written for one pin of an instance.
PinStr(rec, pin) ==
  "." \o pin.name \o "("
      \o (IF pin.dir = "OUTPUT" THEN rec.output[2].name
          ELSE IF pin.dir = "INPUT"
               THEN IF rec.inputs[pin.name] = Zero THEN "UNASSIGNED"
                    ELSE rec.inputs[pin.name].name
               ELSE "")
      \o ")"

\* Lines 655-673: the statement of one instance: cell, name, pin strings.
InstanceStr(rec) ==
  << rec.cell, rec.name,
     [i \in DOMAIN PinsOf(rec.cell) |-> PinStr(rec, PinsOf(rec.cell)[i])] >>

\* The text written, as its parts: the pin names of the module line, the
\* "<dir> <name>;" lines, the wire lines and the instance statements.
Rendered(h, insts, ns, ps) ==
  [header |-> [i \in DOMAIN ps |-> ps[i].name],
   dirs |-> [i \in DOMAIN ps |-> << Lower(ps[i].dir), ps[i].name >>],
   wires |-> [i \in DOMAIN SelectSeq(ns, LAMBDA n : n.dir = "wire") |->
                SelectSeq(ns, LAMBDA n : n.dir = "wire")[i].name],
   insts |-> [i \in DOMAIN insts |-> InstanceStr(h[insts[i]])]]

WriteNetlist ==
  /\ pc = "returned"
  /\ outStr' = Rendered(heap, instances, nets, pins)
  /\ pc' = "written"
  /\ UNCHANGED << otherVars, clouds >>
  /\ UNCHANGED << ngates, distribution, cells, logic, ff, heap, instances,
                  nets, pins, netCount, logicGates, ffGates, freeFF, cloud,
                  levels, li, unassigned, pending, net, cellName, pinIdx >>

Next ==
  \/ SampleCells
  \/ PrepareInstances
  \/ GenerateClock
  \/ NewCloud
  \/ SliceLevel
  \/ WireLevel
  \/ RouteToFreeFF
  \/ RegenFFCall
  \/ RegenFFDraw
  \/ RegenFFBuild
  \/ NextPair
  \/ BindFirstLevel
  \/ CreateIOPins
  \/ IOAbort
  \/ IOBind
  \/ IODrop
  \/ PickDonor
  \/ ReceiverBind
  \/ ReceiverDrop
  \/ Return
  \/ WriteNetlist

Spec == Init /\ [][Next]_vars

\* ------------------------------------ two runs under one seed (408-417)
\* Largest previous level, and largest number of inputs of the level.
MaxPrevLevel == 3
MaxLevelInputs == 2

\* list(s) of a set s: its members in the set's iteration order, which for
\* Net objects follows their id().
ListsOf(s) ==
  {t \in [1..Cardinality(s) -> s] :
     \A i, j \in 1..Cardinality(s) : i # j => t[i] # t[j]}

\* random.choice(seq) when the generator draws index k: seq[k].
Choice(seq, k) == seq[k + 1]

\* Both runs stand at line 411 with the same level of INV gates above the same
\* previous level; the seed fixes the indexes drawn, not the lists' order.
InitDet ==
  /\ \E m \in 1..MaxPrevLevel, q \in 1..MaxLevelInputs :
       /\ ngates = m + q
       /\ cells = [i \in 1..(m + q) |-> "INV"]
       /\ heap = [i \in 1..(m + q) |-> PreparedInstance(cells, i)]
       /\ levels = << [i \in 1..m |-> i], [i \in 1..q |-> m + i] >>
       /\ seedDraws \in [1..q -> 0..(m - 1)]
  /\ listA \in ListsOf(OutputNets(heap, levels[1]))
  /\ listB \in ListsOf(OutputNets(heap, levels[1]))
  /\ boundA = << >>
  /\ boundB = << >>
  /\ pc = "wire"
  /\ distribution = [c \in {"INV"} |-> 1]
  /\ logic = {"INV"}
  /\ ff = {}
  /\ instances = PreparedInstances(cells)
  /\ nets = [i \in 1..ngates |-> heap[i].output[2]]
  /\ pins = << ClockNet(ngates + 1) >>
  /\ netCount = ngates + 1
  /\ logicGates = << >>
  /\ ffGates = << >>
  /\ freeFF = << >>
  /\ cloud = << >>
  /\ li = 1
  /\ unassigned = {}
  /\ pending = {}
  /\ net = Zero
  /\ cellName = "None"
  /\ pinIdx = 0
  /\ outStr = << >>
  /\ clouds = << >>
  /\ LefIdle
  /\ DistIdle

\* Lines 415-417 in run A: its next input is given random.choice of its list.
ChooseA ==
  /\ Len(boundA) < Len(seedDraws)
  /\ boundA' = Append(boundA, Choice(listA, seedDraws[Len(boundA) + 1]))
  /\ UNCHANGED << mainVars, seedDraws, listA, listB, boundB, lefVars, distVars >>

\* The same in run B.
ChooseB ==
  /\ Len(boundB) < Len(seedDraws)
  /\ boundB' = Append(boundB, Choice(listB, seedDraws[Len(boundB) + 1]))
  /\ UNCHANGED << mainVars, seedDraws, listA, listB, boundA, lefVars, distVars >>

NextDet == ChooseA \/ ChooseB

SpecDet == InitDet /\ [][NextDet]_vars

\* --------------------------------------------------- parseLEF (91-163)
\* Largest number of lines of the library file.
MaxLefLines == 4

\* No run of generateNetlist, and no run of lines 411-417, is under way.
MainIdle ==
  /\ pc = "idle"
  /\ ngates = 0
  /\ distribution = << >>
  /\ cells = << >>
  /\ logic = {}
  /\ ff = {}
  /\ heap = << >>
  /\ instances = << >>
  /\ nets = << >>
  /\ pins = << >>
  /\ netCount = 0
  /\ logicGates = << >>
  /\ ffGates = << >>
  /\ freeFF = << >>
  /\ cloud = << >>
  /\ levels = << >>
  /\ li = 0
  /\ unassigned = {}
  /\ pending = {}
  /\ net = Zero
  /\ cellName = "None"
  /\ pinIdx = 0
  /\ outStr = << >>
  /\ clouds = << >>
  /\ seedDraws = << >>
  /\ listA = << >>
  /\ listB = << >>
  /\ boundA = << >>
  /\ boundB = << >>

\* The lines a library file is made of here, each as line.split().  No name
\* holds a keyword, so "'K' in line" is: K is one of the words of the line.
LefLineSet ==
  { << "MACRO", "A" >>, << "MACRO", "B" >>,
    << "PIN", "X" >>, << "DIRECTION", "INPUT" >>, << "USE", "SIGNAL" >>,
    << "END", "A" >>, << "END", "B" >>,
    << "SIZE", "1", "BY", "2" >>, << "SIZE", "3", "BY", "4" >> }

\* 'K' in line
HasWord(line, k) == \E i \in DOMAIN line : line[i] = k

\* float(s) on the numbers of LefLineSet and DistLineSet.
Float(s) == CASE s = "-1" -> 0 - 1 [] s = "0" -> 0
              [] s = "1" -> 1 [] s = "2" -> 2 [] s = "3" -> 3 [] s = "4" -> 4

\* NO_POWER
NoPower == TRUE

\* StdCell(name)
NewStdCell(name) == [name |-> name, pins |-> << >>, width |-> 0, height |-> 0]

\* Pin(name)
NewPin(name) == [name |-> name, dir |-> "", type |-> ""]

\* d[k] = v on a dict kept as a function.
DictSet(d, k, v) == [x \in (DOMAIN d) \cup {k} |-> IF x = k THEN v ELSE d[x]]

\* StdCell.addPin: self.pins[pin.name] = pin, pins as the list of its
\* << name, Pin identity >> items; a key already there keeps its place.
AddPin(cell, name, ref) ==
  IF \E i \in DOMAIN cell.pins : cell.pins[i][1] = name
  THEN [cell EXCEPT !.pins =
          [i \in DOMAIN @ |-> IF @[i][1] = name THEN << name, ref >> ELSE @[i]]]
  ELSE [cell EXCEPT !.pins = Append(@, << name, ref >>)]

\* The locals of the loop as one record; stop is "no" while the body of the
\* loop goes on, "continue", "exit" (sys.exit()) or "error" (an exception).
LefLocals ==
  [stdCells |-> stdCells, pinObjs |-> pinObjs, pin |-> lefPin,
   macroBlock |-> macroBlock, stdCell |-> stdCell, stop |-> "no"]

\* Lines 121-123.
IfPin(s, line) ==
  IF s.stop = "no" /\ s.macroBlock /\ HasWord(line, "PIN")
  THEN [s EXCEPT !.pinObjs = Append(@, NewPin(line[2])),
                 !.pin = Len(s.pinObjs) + 1]
  ELSE s

\* Lines 126-131; pin is read before any PIN line gave it a value: an
\* UnboundLocalError.
IfDirection(s, line) ==
  IF s.stop = "no" /\ s.macroBlock /\ HasWord(line, "DIRECTION")
  THEN IF line[2] \notin {"INPUT", "OUTPUT", "INOUT"}
       THEN [s EXCEPT !.stop = "exit"]
       ELSE IF s.pin = 0
            THEN [s EXCEPT !.stop = "error"]
            ELSE [s EXCEPT !.pinObjs[s.pin].dir = line[2]]
  ELSE s

\* Lines 134-144.
IfUse(s, line) ==
  IF s.stop = "no" /\ s.macroBlock /\ HasWord(line, "USE")
  THEN IF line[2] \notin {"POWER", "SIGNAL", "CLOCK", "GROUND"}
       THEN [s EXCEPT !.stop = "exit"]
       ELSE IF s.pin = 0
            THEN [s EXCEPT !.stop = "error"]
            ELSE IF NoPower /\ line[2] \in {"POWER", "GROUND"}
                 THEN [s EXCEPT !.pinObjs[s.pin].type = line[2],
                                !.stop = "continue"]
                 ELSE [s EXCEPT !.pinObjs[s.pin].type = line[2],
                                !.stdCells[s.stdCell] =
                                   AddPin(@, s.pinObjs[s.pin].name, s.pin)]
  ELSE s

\* Lines 149-152.
IfMacro(s, line) ==
  IF s.stop = "no" /\ HasWord(line, "MACRO")
  THEN [s EXCEPT !.stdCells = DictSet(@, line[2], NewStdCell(line[2])),
                 !.stdCell = line[2],
                 !.macroBlock = TRUE]
  ELSE s

\* Lines 154-155.
IfEnd(s, line) ==
  IF s.stop = "no" /\ s.macroBlock /\ line = << "END", s.stdCell >>
  THEN [s EXCEPT !.macroBlock = FALSE]
  ELSE s

\* Lines 157-162, under no test of macroBlock; stdCell is read before any
\* MACRO line gave it a value: an UnboundLocalError.
IfSize(s, line) ==
  IF s.stop = "no" /\ HasWord(line, "SIZE")
  THEN IF s.stdCell = "None"
       THEN [s EXCEPT !.stop = "error"]
       ELSE [s EXCEPT !.stdCells[s.stdCell].width = Float(line[2]),
                      !.stdCells[s.stdCell].height = Float(line[4])]
  ELSE s

\* The body of "for line in lines" on one line.
LefBody(s, line) ==
  IfSize(IfEnd(IfMacro(IfUse(IfDirection(IfPin(s, line), line), line),
                       line), line), line)

InitLEF ==
  /\ MainIdle
  /\ DistIdle
  /\ lefLines \in UNION {[1..n -> LefLineSet] : n \in 0..MaxLefLines}
  /\ lefIdx = 1
  /\ lefPc = "lines"
  /\ stdCells = << >>
  /\ pinObjs = << >>
  /\ lefPin = 0
  /\ macroBlock = FALSE
  /\ stdCell = "None"

\* One turn of the loop of line 113.
ParseLine ==
  /\ lefPc = "lines"
  /\ lefIdx <= Len(lefLines)
  /\ LET s == LefBody(LefLocals, lefLines[lefIdx])
     IN /\ stdCells' = s.stdCells
        /\ pinObjs' = s.pinObjs
        /\ lefPin' = s.pin
        /\ macroBlock' = s.macroBlock
        /\ stdCell' = s.stdCell
        /\ lefPc' = IF s.stop \in {"exit", "error"} THEN s.stop ELSE "lines"
        /\ lefIdx' = IF s.stop \in {"exit", "error"} THEN lefIdx ELSE lefIdx + 1
  /\ UNCHANGED << mainVars, detVars, distVars, lefLines >>

\* Line 163: return stdCells.
ParseReturn ==
  /\ lefPc = "lines"
  /\ lefIdx > Len(lefLines)
  /\ lefPc' = "returned"
  /\ UNCHANGED << mainVars, detVars, distVars, lefLines, lefIdx, stdCells,
                  pinObjs, lefPin, macroBlock, stdCell >>

NextLEF == ParseLine \/ ParseReturn

SpecLEF == InitLEF /\ [][NextLEF]_vars

\* --------------------------------------- distributionFromFile (165-192)
\* Largest number of lines of the distribution file.
MaxDistLines == 3

\* The lines a distribution file is made of here, each as line.split().
DistLineSet == {<< c, w >> : c \in {"INV", "DFF"}, w \in {"-1", "0", "1", "2"}}

\* sum(d.values())
RECURSIVE SumValues(_)
SumValues(d) ==
  IF DOMAIN d = {} THEN 0
  ELSE LET k == CHOOSE x \in DOMAIN d : TRUE
       IN d[k] + SumValues([x \in (DOMAIN d) \ {k} |-> d[x]])

\* w / total, kept as the fraction it is the value of.
Quotient(w, total) == [num |-> w, den |-> total]

InitDist ==
  /\ MainIdle
  /\ LefIdle
  /\ distLines \in UNION {[1..n -> DistLineSet] : n \in 0..MaxDistLines}
  /\ distIdx = 1
  /\ distPc = "lines"
  /\ distTable = << >>

\* Lines 183-184, one turn of "for line in lines".
DistLine ==
  /\ distPc = "lines"
  /\ distIdx <= Len(distLines)
  /\ distTable' = DictSet(distTable, distLines[distIdx][1],
                          Float(distLines[distIdx][2]))
  /\ distIdx' = distIdx + 1
  /\ UNCHANGED << mainVars, detVars, lefVars, distLines, distPc >>

\* Lines 188-192: every weight is divided by the total, which raises
\* ZeroDivisionError at the first key when the total is 0, and the dict is
\* returned.
Normalise ==
  /\ distPc = "lines"
  /\ distIdx > Len(distLines)
  /\ LET total == SumValues(distTable)
     IN IF DOMAIN distTable # {} /\ total = 0
        THEN /\ distPc' = "error"
             /\ distTable' = distTable
        ELSE /\ distPc' = "returned"
             /\ distTable' = [c \in DOMAIN distTable |->
                                Quotient(distTable[c], total)]
  /\ UNCHANGED << mainVars, detVars, lefVars, distLines, distIdx >>

NextDist == DistLine \/ Normalise

SpecDist == InitDist /\ [][NextDist]_vars

\* ------------------------------------------------------------ the claims
Returned == pc \in {"returned", "written"}

\* The Instance objects netlist.instances lists.
Listed == Range(instances)

Sequential(k) == HasClock(heap[k].cell)

\* The Net object of line 365: netlist.pins[0] since line 372.
TheClock == pins[1]

\* Every Net object the netlist refers to: netlist.nets, the outputs and the
\* bound inputs of its instances.
NetsOf(h, insts, ns) ==
  Range(ns)
    \cup {h[k].output[2] : k \in Range(insts)}
    \cup UNION {{h[k].inputs[p] : p \in DOMAIN h[k].inputs} : k \in Range(insts)}

AllNets == NetsOf(heap, instances, nets) \ {Zero}

\* C1: from the end of the instance preparation on, and so in every netlist
\* returned, every entry of netlist.instances, sampled or made by regenFF, has
\* a Net as output[1], and no Net object is the output of two Instance objects.
C1_OutputBound ==
  pc \notin {"sample", "prepare"} =>
    /\ \A k \in Listed : IsNet(heap[k].output[2])
    /\ \A k, m \in Listed :
         k # m => heap[k].output[2].obj # heap[m].output[2].obj

C1_Witness ==
  /\ pc = "returned"
  /\ \E k, m \in Listed : k # m /\ Sequential(k) /\ ~Sequential(m)

C3_NetNamesUnique ==
  Returned => \A a, b \in AllNets : a.obj # b.obj => a.name # b.name

DistHasNoSeq == \A c \in Drawable(distribution) : ~HasClock(c)

\* C4: when no cell of the distribution has a CLOCK pin, the run neither
\* exits nor raises, and the netlist it returns holds a sequential instance.
C4_ZeroSeqSucceeds ==
  DistHasNoSeq =>
    /\ pc \notin {"exit", "error"}
    /\ Returned => \E k \in Listed : Sequential(k)

\* C5: two runs with the same seed and inputs give the inputs of a level the
\* same nets, whatever the iteration order of the sets of Net objects.
C5_SameSeedSameNets ==
  (Len(boundA) = Len(seedDraws) /\ Len(boundB) = Len(seedDraws)) =>
    boundA = boundB

\* C6: a run that returns yields exactly ngates entries in netlist.instances,
\* each of them once.
C6_InstanceCount ==
  Returned =>
    /\ Len(instances) = ngates
    /\ \A i, j \in DOMAIN instances : i # j => instances[i] # instances[j]

C6_Witness == pc = "returned" /\ ngates >= 3 /\ Len(instances) >= 3

\* C7: in the I/O phase, when the pool is empty while a pin is still to be
\* bound, the step taken makes a new flip-flop and does not end the run.
C7_IOSynthesizes ==
  [][(pc = "io" /\ Len(freeFF) = 0) =>
       (pc' # "exit" /\ Len(ffGates') = Len(ffGates) + 1)]_vars

\* C8: in every netlist returned no input of any listed instance is 0, and
\* what writeNetlist writes holds no UNASSIGNED.
C8_NoUnboundInput ==
  /\ Returned =>
       \A k \in Listed : \A p \in DOMAIN heap[k].inputs : heap[k].inputs[p] # Zero
  /\ pc = "written" =>
       \A i \in DOMAIN outStr.insts :
         \A j \in DOMAIN outStr.insts[i][3] :
           outStr.insts[i][3][j]
             # "." \o PinsOf(outStr.insts[i][1])[j].name \o "(UNASSIGNED)"

C8_Witness ==
  /\ pc = "written"
  /\ \E k, m \in Listed :
       /\ Sequential(k)
       /\ ~Sequential(m)
       /\ DOMAIN heap[m].inputs # {}

\* C9: from the creation of the pool on, every member of freeFF has an input
\* that is still 0.
C9_PoolMembersFree ==
  pc \notin {"sample", "prepare"} =>
    \A i \in DOMAIN freeFF : HasFreeInput(heap[freeFF[i]])

\* C10: when the for loop of line 420 is over for a pair of levels, every
\* output net of the lower level that no input of the upper level took is
\* bound to an input of a sequential instance.
C10_UnassignedRouted ==
  (pc = "route" /\ pending = {}) =>
    \A n \in unassigned :
      \E k \in Listed :
        /\ Sequential(k)
        /\ \E p \in DOMAIN heap[k].inputs : heap[k].inputs[p] = n

\* What the dict says of cell c: its pins, each with the fields of its Pin
\* object, and its size.
CellDef(cs, objs, c) ==
  [pins |-> [i \in DOMAIN cs[c].pins |-> objs[cs[c].pins[i][2]]],
   width |-> cs[c].width,
   height |-> cs[c].height]

\* C11: a PIN, DIRECTION, USE or SIZE line changes the definition of a cell
\* only when the line lies in the open block of that cell: after its MACRO
\* line and before its END line.  A SIZE line read while no block is open
\* changes no cell.
C11_BlockScoped ==
  [][\A c \in DOMAIN stdCells :
       ( /\ lefPc = "lines"
         /\ lefIdx <= Len(lefLines)
         /\ lefLines[lefIdx][1] \in {"PIN", "DIRECTION", "USE", "SIZE"}
         /\ c \in DOMAIN stdCells'
         /\ CellDef(stdCells', pinObjs', c) # CellDef(stdCells, pinObjs, c) )
       => (macroBlock /\ stdCell = c)]_vars

\* The file is empty, holds a weight that is zero or negative, or its
\* weights sum to zero.
BadDistFile ==
  \/ distLines = << >>
  \/ \E i \in DOMAIN distLines : Float(distLines[i][2]) <= 0
  \/ SumValues([i \in DOMAIN distLines |-> Float(distLines[i][2])]) = 0

\* The value of a fraction is positive.
PositiveQ(q) == q.num * q.den > 0

\* C12: the call returns a table only for a file that is not empty, holds
\* positive weights only and does not sum to zero, and the table it returns
\* then has positive weights that sum to 1; a file of positive weights does
\* not make the call fail.
C12_DistValidated ==
  /\ distPc = "returned" =>
       /\ ~BadDistFile
       /\ \A c \in DOMAIN distTable : PositiveQ(distTable[c])
       /\ \A c \in DOMAIN distTable :
            SumValues([x \in DOMAIN distTable |-> distTable[x].num])
              = distTable[c].den
  /\ distPc = "error" => BadDistFile

\* t = floor(RentR * n ^ (RentPNum / RentPDen))
IsRentFloor(t, n) ==
  /\ t ^ RentPDen <= (RentR ^ RentPDen) * (n ^ RentPNum)
  /\ (t + 1) ^ RentPDen > (RentR ^ RentPDen) * (n ^ RentPNum)

\* C13: the number of top-level pins of a returned netlist, the length of
\* netlist.pins, is floor(r * N ^ 0.4), N the number of its instances.
C13_PrimaryPinCount ==
  Returned => IsRentFloor(Len(pins), Len(instances))

\* The distribution names a cell of the library with two OUTPUT pins or more.
DistHasMultiOutput == \E c \in DOMAIN distribution : Len(OutputPins(c)) > 1

\* C14: a run whose distribution names a cell with more than one OUTPUT pin
\* returns no netlist, and so writes none.
C14_MultiOutputFatal ==
  DistHasMultiOutput => pc \notin {"returned", "written"}

\* A cloud has just been finished (line 450), or the netlist is returned.
CloudsDone == pc \in {"clouds", "returned", "written"}

\* The places (cloud, level, position) at which instance k stands.
PlacesOf(k) ==
  {<< c, l, j >> \in (DOMAIN clouds) \X (1..MaxGates) \X (1..MaxGates) :
     /\ l \in DOMAIN clouds[c]
     /\ j \in DOMAIN clouds[c][l]
     /\ clouds[c][l][j] = k}

FreeSlots(h, pool) ==
  UNION {{<< k, p >> : p \in {q \in DOMAIN h[k].inputs : h[k].inputs[q] = Zero}} :
           k \in Range(pool)}

====
